---- MODULE Spec2Model ----
(***************************************************************************)
(* Model of src/app.py: a Flask chat backend that keeps a session token in *)
(* a signed cookie, stores role-tagged messages in a MongoDB collection    *)
(* and forwards a bounded context window to the Groq completion API.       *)
(*                                                                         *)
(* Requests run concurrently (one thread per request).  Every store call   *)
(* and the completion call is one atomic step; a handler is the sequence   *)
(* of its steps.  A request reads the cookie when it starts and the        *)
(* browser stores the cookie of a response whose session was modified.     *)
(***************************************************************************)
EXTENDS Integers, Sequences, FiniteSets, TLC

\* ---- bounds ----
MaxRequests == 3        \* requests admitted in one behaviour
MaxHist == 12           \* longest stored history in SpecBuild

\* ---- program constants ----
WindowSize == 10        \* chat_history['messages'][-10:]

Slots == {"p", "q"}     \* request threads
Messages == {"m1", "m2"}   \* contents of the 'message' field of a /chat body
Replies == {"r1"}          \* completion.choices[0].message.content
BadBody == "<bad body>"    \* a /chat body request.json cannot read
NoToken == 0               \* 'session_id' not in session

\* the response texts of chat(), without the leading warning sign of line 165
SystemPrompt == "You are a helpful AI assistant. Provide clear, concise, and accurate responses."
Advisory == "Groq API is not configured. Please add GROQ_API_KEY to environment variables."
ServiceError == "I encountered an error with the AI service. Please try again."
GenericError == "Sorry, something went wrong. Please try again."
Fallbacks == {Advisory, ServiceError, GenericError}

VARIABLES
    connected,      \* conversations is not None (fixed at start-up)
    groq_client,    \* groq_client is not None (fixed at start-up)
    conversations,  \* the documents of the collection, in insertion order
    cookie,         \* session_id in the browser's session cookie, or NoToken
    next_token,     \* the next value of secrets.token_hex(16)
    now,            \* the next value of datetime.now()
    reqs,           \* the requests in flight, one per thread
    started,        \* number of requests admitted so far
    prev,           \* the request that finished last
    prev2           \* the request that finished before prev

vars == <<connected, groq_client, conversations, cookie, next_token, now,
          reqs, started, prev, prev2>>

\* ---- messages and documents ----
Msg(role, content) == [role |-> role, content |-> content]

Stored(role, content, ts) == [role |-> role, content |-> content, timestamp |-> ts]

\* a document as home() and clear_chat() insert it
NewDoc(sid, created, updated) ==
    [session_id |-> sid, messages |-> <<>>, created_at |-> created, updated_at |-> updated]

Project(ms) == [i \in 1..Len(ms) |-> Msg(ms[i].role, ms[i].content)]

\* seq[:n], the first n instead of the last n
FirstN(seq, n) == SubSeq(seq, 1, IF Len(seq) > n THEN n ELSE Len(seq))

\* seq[-n:]
LastN(seq, n) == SubSeq(seq, IF Len(seq) > n THEN Len(seq) - n + 1 ELSE 1, Len(seq))

\* ---- the collection ----
Matches(docs, sid) == {i \in 1..Len(docs) : docs[i].session_id = sid}

FirstMatch(docs, sid) == CHOOSE i \in Matches(docs, sid) : \A j \in Matches(docs, sid) : i <= j

\* find_one({'session_id': sid}): <<>> is None
FindOne(docs, sid) ==
    IF Matches(docs, sid) = {} THEN <<>> ELSE <<docs[FirstMatch(docs, sid)]>>

InsertOne(docs, doc) == Append(docs, doc)

\* a delete_one whose filter matches nothing
DeleteOneKept(docs, sid) == docs

\* delete_one({'session_id': sid})
DeleteOne(docs, sid) ==
    IF Matches(docs, sid) = {} THEN docs
    ELSE LET k == FirstMatch(docs, sid) IN
         SubSeq(docs, 1, k - 1) \o SubSeq(docs, k + 1, Len(docs))

\* the user push without upsert=True: nothing is inserted
UpsertNoInsert(docs, sid, content, ts, upd) == docs

\* the insert of an upsert whose filter matched no document
UpsertInsert(docs, sid, content, ts, upd) ==
    Append(docs, [session_id |-> sid, messages |-> <<Stored("user", content, ts)>>,
                  created_at |-> 0, updated_at |-> upd])

\* the user message written with $set instead of $push
PushUserReplace(docs, sid, content, ts, upd) ==
    IF Matches(docs, sid) = {}
    THEN UpsertInsert(docs, sid, content, ts, upd)
    ELSE LET k == FirstMatch(docs, sid) IN
         [docs EXCEPT ![k].messages = <<Stored("user", content, ts)>>,
                      ![k].updated_at = upd]

\* update_one with $push of the user message, $set updated_at, upsert=True
PushUser(docs, sid, content, ts, upd) ==
    IF Matches(docs, sid) = {}
    THEN UpsertInsert(docs, sid, content, ts, upd)
    ELSE LET k == FirstMatch(docs, sid) IN
         [docs EXCEPT ![k].messages = Append(@, Stored("user", content, ts)),
                      ![k].updated_at = upd]

\* the assistant push left out
PushAssistantLost(docs, sid, content, ts) == docs

\* update_one with $push of the assistant message, no $set, no upsert
PushAssistant(docs, sid, content, ts) ==
    IF Matches(docs, sid) = {} THEN docs
    ELSE LET k == FirstMatch(docs, sid) IN
         [docs EXCEPT ![k].messages = Append(@, Stored("assistant", content, ts))]

\* ---- the context window ----
\* the list built without the else branch of lines 193-198
BuildMessagesNoElse(chat_history, user_message) ==
    IF chat_history # <<>>
    THEN <<Msg("system", SystemPrompt)>>
            \o Project(LastN(chat_history[1].messages, WindowSize))
    ELSE <<Msg("system", SystemPrompt)>>

\* chat_history is <<>> (None) or <<doc>>
BuildMessages(chat_history, user_message) ==
    IF chat_history # <<>>
    THEN <<Msg("system", SystemPrompt)>>
            \o Project(LastN(chat_history[1].messages, WindowSize))
    ELSE <<Msg("system", SystemPrompt), Msg("user", user_message)>>

\* ---- requests ----
Idle ==
    [kind |-> "idle", pc |-> "idle",
     session_id |-> NoToken,     \* session.get('session_id')
     old_id |-> NoToken,         \* the token the request arrived with
     modified |-> FALSE,         \* the handler assigned session['session_id']
     user_message |-> "",
     chat_history |-> <<>>,
     messages |-> <<>>,          \* the list sent to the completion service
     ai_response |-> "",
     user_ts |-> 0,              \* the timestamp of its user message
     reply_ts |-> 0,             \* the timestamp of its assistant message
     calls |-> 0,                \* completion calls made
     errs |-> {},                \* store calls of this request that raised
     ops |-> {},                 \* store calls of this request that returned
     alone |-> TRUE,             \* no other request was in flight with it
     status |-> "", response |-> "", result |-> <<>>]

InFlight == {s \in Slots : reqs[s].kind # "idle"}

\* a request whose session cookie is not read (the signature is rejected)
AdmitNoSession(s, kind) ==
    [Idle EXCEPT !.kind = kind, !.pc = "start", !.alone = (InFlight = {})]

\* a request is admitted on thread s; it reads the session from the cookie
Admit(s, kind) ==
    [Idle EXCEPT !.kind = kind, !.pc = "start",
                 !.session_id = cookie, !.old_id = cookie,
                 !.alone = (InFlight = {})]

\* the other requests in flight once a request is admitted on thread s
Others(s) ==
    [t \in Slots |-> IF t # s /\ reqs[t].kind # "idle"
                     THEN [reqs[t] EXCEPT !.alone = FALSE] ELSE reqs[t]]

\* a request goes to the first free thread (the threads are interchangeable)
CanAdmit(s) ==
    /\ reqs[s].kind = "idle"
    /\ s = "q" => reqs["p"].kind # "idle"
    /\ started < MaxRequests

\* the response of r is returned: the browser keeps a modified session
Return(s, r, rs) ==
    /\ reqs' = [rs EXCEPT ![s] = Idle]
    /\ prev' = [r EXCEPT !.pc = "done"]
    /\ prev2' = prev
    /\ cookie' = IF r.modified THEN r.session_id ELSE cookie

Continue(s, r) ==
    /\ reqs' = [reqs EXCEPT ![s] = r]
    /\ UNCHANGED <<prev, prev2, cookie>>

Init ==
    /\ connected \in BOOLEAN
    /\ groq_client \in BOOLEAN
    /\ conversations = <<>>
    /\ cookie = NoToken
    /\ next_token = 1
    /\ now = 1
    /\ reqs = [s \in Slots |-> Idle]
    /\ started = 0
    /\ prev = Idle
    /\ prev2 = Idle

\* ---- GET / ----
\* home(), lines 116-117 and 131
HomeStart(s) ==
    /\ CanAdmit(s)
    /\ started' = started + 1
    /\ UNCHANGED <<connected, groq_client, conversations, now>>
    /\ LET r == Admit(s, "home") IN
       IF r.session_id # NoToken
       THEN /\ Return(s, [r EXCEPT !.status = "page"], Others(s))
            /\ UNCHANGED next_token
       ELSE LET r1 == [r EXCEPT !.session_id = next_token, !.modified = TRUE] IN
            /\ next_token' = next_token + 1
            /\ IF connected
               THEN /\ reqs' = [Others(s) EXCEPT ![s] = [r1 EXCEPT !.pc = "insert"]]
                    /\ UNCHANGED <<prev, prev2, cookie>>
               ELSE Return(s, [r1 EXCEPT !.status = "page"], Others(s))

\* home(), lines 120-131: insert_one returns (ok) or raises
HomeInsert(s, ok) ==
    /\ reqs[s].kind = "home" /\ reqs[s].pc = "insert"
    /\ now' = now + 2
    /\ conversations' = IF ok THEN InsertOne(conversations, NewDoc(reqs[s].session_id, now, now + 1))
                        ELSE conversations
    /\ Return(s, [reqs[s] EXCEPT !.status = "page",
                                 !.errs = IF ok THEN @ ELSE @ \cup {"insert"},
                                 !.ops = IF ok THEN @ \cup {"insert"} ELSE @], reqs)
    /\ UNCHANGED <<connected, groq_client, next_token, started>>

\* ---- POST /chat ----
\* what chat() returns from its except clauses and its guard on groq_client
\* the advisory message returned as a success
AdvisoryAsSuccess == [status |-> "success", response |-> Advisory]

\* the exception text returned to the user
ServiceErrorLeak == [status |-> "error", response |-> "Groq API error: <exception>"]

AdvisoryResponse == [status |-> "error", response |-> Advisory]

ServiceErrorResponse == [status |-> "error", response |-> ServiceError]

GenericErrorResponse == [status |-> "error", response |-> GenericError]

SuccessResponse(ai_response) == [status |-> "success", response |-> ai_response]

Respond(r, resp) == [r EXCEPT !.status = resp.status, !.response = resp.response]

Outcome(r, op, ok) ==
    [r EXCEPT !.errs = IF ok THEN @ ELSE @ \cup {op},
              !.ops = IF ok THEN @ \cup {op} ELSE @]

\* chat(), lines 137-142; a body request.json cannot read raises into
\* the handler's outer except clause, lines 236-241
ChatStart(s, body) ==
    /\ CanAdmit(s)
    /\ started' = started + 1
    /\ UNCHANGED <<connected, groq_client, conversations, now>>
    /\ LET r == Admit(s, "chat") IN
       IF body = BadBody
       THEN /\ Return(s, Respond(r, GenericErrorResponse), Others(s))
            /\ UNCHANGED next_token
       ELSE LET r1 == [r EXCEPT !.user_message = body, !.pc = "append"]
                r2 == IF r.session_id # NoToken THEN r1
                      ELSE [r1 EXCEPT !.session_id = next_token, !.modified = TRUE]
            IN /\ next_token' = IF r.session_id # NoToken THEN next_token ELSE next_token + 1
               /\ reqs' = [Others(s) EXCEPT ![s] = r2]
               /\ UNCHANGED <<prev, prev2, cookie>>

\* chat(), lines 144-167: the user message is saved, then groq_client is checked.
\* An update of a matching document is atomic.  When no document matches,
\* the upsert inserts one in a later step: the collection has no unique
\* index on session_id (line 72), so the store does not look again.
ChatAppendUser(s, ok) ==
    /\ reqs[s].kind = "chat" /\ reqs[s].pc = "append"
    /\ connected \/ ok
    /\ LET r == [reqs[s] EXCEPT !.user_ts = IF connected THEN now ELSE 0]
           r1 == IF connected THEN Outcome(r, "append", ok) ELSE r
       IN /\ now' = IF connected THEN now + 2 ELSE now
          /\ IF connected /\ ok /\ Matches(conversations, r.session_id) = {}
             THEN /\ UNCHANGED conversations
                  /\ Continue(s, [r EXCEPT !.pc = "upsert"])
             ELSE /\ conversations' =
                        IF connected /\ ok
                        THEN PushUser(conversations, r.session_id, r.user_message, now, now + 1)
                        ELSE conversations
                  /\ IF ~groq_client
                     THEN Return(s, Respond(r1, AdvisoryResponse), reqs)
                     ELSE Continue(s, [r1 EXCEPT !.pc = "fetch"])
    /\ UNCHANGED <<connected, groq_client, next_token, started>>

\* chat(), lines 147-167: the upsert inserts the document it did not find
ChatUpsertInsert(s) ==
    /\ reqs[s].kind = "chat" /\ reqs[s].pc = "upsert"
    /\ LET r == reqs[s]
           r1 == Outcome(r, "append", TRUE)
       IN /\ conversations' = UpsertInsert(conversations, r.session_id, r.user_message,
                                           r.user_ts, r.user_ts + 1)
          /\ IF ~groq_client
             THEN Return(s, Respond(r1, AdvisoryResponse), reqs)
             ELSE Continue(s, [r1 EXCEPT !.pc = "fetch"])
    /\ UNCHANGED <<connected, groq_client, next_token, now, started>>

\* chat(), lines 169-198: the history is fetched and the message list is built
ChatFetch(s, ok) ==
    /\ reqs[s].kind = "chat" /\ reqs[s].pc = "fetch"
    /\ connected \/ ok
    /\ LET r == reqs[s]
           r1 == IF connected THEN Outcome(r, "fetch", ok) ELSE r
           h == IF connected /\ ok THEN FindOne(conversations, r.session_id) ELSE <<>>
       IN Continue(s, [r1 EXCEPT !.chat_history = h,
                                 !.messages = BuildMessages(h, r.user_message),
                                 !.pc = "call"])
    /\ UNCHANGED <<connected, groq_client, conversations, next_token, now, started>>

\* chat(), lines 200-211 and 229-234: one call of the completion service,
\* which returns reply or raises (reply = "")
ChatComplete(s, reply) ==
    /\ reqs[s].kind = "chat" /\ reqs[s].pc = "call"
    /\ LET r == [reqs[s] EXCEPT !.calls = @ + 1] IN
       IF reply = ""
       THEN Return(s, Respond(r, ServiceErrorResponse), reqs)
       ELSE Continue(s, [r EXCEPT !.ai_response = reply, !.pc = "save"])
    /\ UNCHANGED <<connected, groq_client, conversations, next_token, now, started>>

\* chat(), lines 213-227: the reply is saved and returned
ChatSaveReply(s, ok) ==
    /\ reqs[s].kind = "chat" /\ reqs[s].pc = "save"
    /\ connected \/ ok
    /\ LET r == [reqs[s] EXCEPT !.reply_ts = IF connected THEN now ELSE 0]
           r1 == IF connected THEN Outcome(r, "save", ok) ELSE r
       IN /\ now' = IF connected THEN now + 1 ELSE now
          /\ conversations' = IF connected /\ ok
                              THEN PushAssistant(conversations, r.session_id, r.ai_response, now)
                              ELSE conversations
          /\ Return(s, Respond(r1, SuccessResponse(r.ai_response)), reqs)
    /\ UNCHANGED <<connected, groq_client, next_token, started>>

\* ---- GET /history ----
\* get_history(), lines 247-248 and 255
HistoryStart(s) ==
    /\ CanAdmit(s)
    /\ started' = started + 1
    /\ LET r == Admit(s, "history") IN
       IF r.session_id # NoToken /\ connected
       THEN /\ reqs' = [Others(s) EXCEPT ![s] = [r EXCEPT !.pc = "find"]]
            /\ UNCHANGED <<prev, prev2, cookie>>
       ELSE Return(s, [r EXCEPT !.status = "json"], Others(s))
    /\ UNCHANGED <<connected, groq_client, conversations, next_token, now>>

\* what get_history() returns for the document find_one gave it
HistoryResult(chat_history) ==
    IF chat_history # <<>> THEN chat_history[1].messages ELSE <<>>

\* get_history(), lines 249-255
HistoryFind(s, ok) ==
    /\ reqs[s].kind = "history" /\ reqs[s].pc = "find"
    /\ LET r == Outcome(reqs[s], "find", ok)
           h == IF ok THEN FindOne(conversations, r.session_id) ELSE <<>>
       IN Return(s, [r EXCEPT !.status = "json", !.chat_history = h,
                              !.result = HistoryResult(h)], reqs)
    /\ UNCHANGED <<connected, groq_client, conversations, next_token, now, started>>

\* ---- POST /clear ----
\* clear_chat(), lines 261-262 and 283
ClearStart(s) ==
    /\ CanAdmit(s)
    /\ started' = started + 1
    /\ LET r == Admit(s, "clear") IN
       IF r.session_id # NoToken /\ connected
       THEN /\ reqs' = [Others(s) EXCEPT ![s] = [r EXCEPT !.pc = "delete"]]
            /\ UNCHANGED <<prev, prev2, cookie>>
       ELSE Return(s, [r EXCEPT !.status = "success"], Others(s))
    /\ UNCHANGED <<connected, groq_client, conversations, next_token, now>>

\* clear_chat(), lines 264-267 and 279-281: the old conversation is deleted
\* and a new token is put in the session
ClearDelete(s, ok) ==
    /\ reqs[s].kind = "clear" /\ reqs[s].pc = "delete"
    /\ LET r == Outcome(reqs[s], "delete", ok) IN
       IF ok
       THEN /\ conversations' = DeleteOne(conversations, r.session_id)
            /\ next_token' = next_token + 1
            /\ Continue(s, [r EXCEPT !.session_id = next_token, !.modified = TRUE,
                                     !.pc = "insert"])
       ELSE /\ Return(s, [r EXCEPT !.status = "error", !.response = "Failed to clear chat"], reqs)
            /\ UNCHANGED <<conversations, next_token>>
    /\ UNCHANGED <<connected, groq_client, now, started>>

\* clear_chat(), lines 270-281: the new conversation is created
ClearInsert(s, ok) ==
    /\ reqs[s].kind = "clear" /\ reqs[s].pc = "insert"
    /\ now' = now + 2
    /\ conversations' = IF ok THEN InsertOne(conversations, NewDoc(reqs[s].session_id, now, now + 1))
                        ELSE conversations
    /\ LET r == Outcome(reqs[s], "insert", ok) IN
       Return(s, [r EXCEPT !.status = IF ok THEN "success" ELSE "error",
                           !.response = IF ok THEN "Chat cleared successfully"
                                        ELSE "Failed to clear chat"], reqs)
    /\ UNCHANGED <<connected, groq_client, next_token, started>>

\* ---- GET /status and GET /health ----
\* get_status(), lines 288-296
GetStatus(s) ==
    /\ CanAdmit(s)
    /\ started' = started + 1
    /\ Return(s, [Admit(s, "status") EXCEPT !.status = "json"], Others(s))
    /\ UNCHANGED <<connected, groq_client, conversations, next_token, now>>

\* health_check(), lines 301-304
HealthCheck(s) ==
    /\ CanAdmit(s)
    /\ started' = started + 1
    /\ now' = now + 1
    /\ Return(s, [Admit(s, "health") EXCEPT !.status = "healthy"], Others(s))
    /\ UNCHANGED <<connected, groq_client, conversations, next_token>>

Next ==
    \/ \E s \in Slots : HomeStart(s)
    \/ \E s \in Slots, ok \in BOOLEAN : HomeInsert(s, ok)
    \/ \E s \in Slots, body \in Messages \cup {BadBody} : ChatStart(s, body)
    \/ \E s \in Slots, ok \in BOOLEAN : ChatAppendUser(s, ok)
    \/ \E s \in Slots : ChatUpsertInsert(s)
    \/ \E s \in Slots, ok \in BOOLEAN : ChatFetch(s, ok)
    \/ \E s \in Slots, reply \in Replies \cup {""} : ChatComplete(s, reply)
    \/ \E s \in Slots, ok \in BOOLEAN : ChatSaveReply(s, ok)
    \/ \E s \in Slots : HistoryStart(s)
    \/ \E s \in Slots, ok \in BOOLEAN : HistoryFind(s, ok)
    \/ \E s \in Slots : ClearStart(s)
    \/ \E s \in Slots, ok \in BOOLEAN : ClearDelete(s, ok)
    \/ \E s \in Slots, ok \in BOOLEAN : ClearInsert(s, ok)
    \/ \E s \in Slots : GetStatus(s)
    \/ \E s \in Slots : HealthCheck(s)

Spec == Init /\ [][Next]_vars

\* ---- one request at a time ----
\* The same handlers when the browser sends a request only after the
\* response to the previous one: every request runs alone, on thread "p".
NextSeq ==
    \/ InFlight = {} /\ HomeStart("p")
    \/ \E ok \in BOOLEAN : HomeInsert("p", ok)
    \/ \E body \in Messages \cup {BadBody} : InFlight = {} /\ ChatStart("p", body)
    \/ \E ok \in BOOLEAN : ChatAppendUser("p", ok)
    \/ ChatUpsertInsert("p")
    \/ \E ok \in BOOLEAN : ChatFetch("p", ok)
    \/ \E reply \in Replies \cup {""} : ChatComplete("p", reply)
    \/ \E ok \in BOOLEAN : ChatSaveReply("p", ok)
    \/ InFlight = {} /\ HistoryStart("p")
    \/ \E ok \in BOOLEAN : HistoryFind("p", ok)
    \/ InFlight = {} /\ ClearStart("p")
    \/ \E ok \in BOOLEAN : ClearDelete("p", ok)
    \/ \E ok \in BOOLEAN : ClearInsert("p", ok)
    \/ InFlight = {} /\ GetStatus("p")
    \/ InFlight = {} /\ HealthCheck("p")

SpecSeq == Init /\ [][NextSeq]_vars

\* ---- the context window over long histories ----
\* The session has a conversation (GET / created it) to which earlier
\* requests have pushed up to MaxHist messages; then one /chat request runs
\* up to the construction of its message list.
InitBuild ==
    /\ connected = TRUE
    /\ groq_client = TRUE
    /\ conversations = InsertOne(<<>>, NewDoc(1, 1, 2))
    /\ cookie = 1
    /\ next_token = 2
    /\ now = 3
    /\ reqs = [s \in Slots |-> Idle]
    /\ started = 0
    /\ prev = Idle
    /\ prev2 = Idle

HistLen == IF conversations = <<>> THEN 0 ELSE Len(conversations[1].messages)

\* an earlier /chat saved its user message (lines 147-158)
EarlierUser ==
    /\ InFlight = {} /\ HistLen < MaxHist
    /\ conversations' = PushUser(conversations, cookie, "m1", now, now + 1)
    /\ now' = now + 2
    /\ UNCHANGED <<connected, groq_client, cookie, next_token, reqs, started, prev, prev2>>

\* an earlier /chat saved its reply (lines 216-223)
EarlierAssistant ==
    /\ InFlight = {} /\ HistLen < MaxHist
    /\ conversations' = PushAssistant(conversations, cookie, "r1", now)
    /\ now' = now + 1
    /\ UNCHANGED <<connected, groq_client, cookie, next_token, reqs, started, prev, prev2>>

NextBuild ==
    \/ EarlierUser
    \/ EarlierAssistant
    \/ \E body \in Messages : ChatStart("p", body)
    \/ \E ok \in BOOLEAN : ChatAppendUser("p", ok)
    \/ \E ok \in BOOLEAN : ChatFetch("p", ok)

SpecBuild == InitBuild /\ [][NextBuild]_vars

\* ==== properties ====
SystemMsg == Msg("system", SystemPrompt)

\* the requests the state records: those in flight and the last two finished
Recorded == {reqs[s] : s \in Slots} \cup {prev, prev2}

\* a /chat request that has built its message list
Built(r) == r.kind = "chat" /\ (r.pc \in {"call", "save"} \/ r.calls >= 1)

\* every store call of r returned (none raised) on a connected store
StoreOk(r) == connected /\ r.errs = {}

\* no store call of r returned: there is no collection, or each call raised
StoreDown(r) == ~connected \/ r.ops = {}

\* prev finished alone and prev2 finished alone right before it
Consecutive == prev.alone /\ prev2.alone /\ InFlight = {}

\* C1: on a fresh session with the store available and the completion call
\* succeeding, /chat with message m returns "success" with the reply r, and
\* the /history that follows returns exactly [user m, assistant r].
C1_FreshChat(c) ==
    /\ c.kind = "chat" /\ c.pc = "done" /\ c.alone
    /\ c.old_id = NoToken /\ StoreOk(c) /\ c.ai_response # ""

C1_FreshChatThenHistory ==
    /\ C1_FreshChat(prev) =>
          prev.status = "success" /\ prev.response = prev.ai_response
    /\ (C1_FreshChat(prev2) /\ prev.kind = "history" /\ Consecutive /\ StoreOk(prev)) =>
          /\ prev2.status = "success"
          /\ prev.session_id = prev2.session_id
          /\ Project(prev.result) = <<Msg("user", prev2.user_message),
                                      Msg("assistant", prev2.response)>>

C1_Witness ==
    /\ C1_FreshChat(prev2) /\ prev.kind = "history" /\ Consecutive /\ StoreOk(prev)
    /\ Len(prev.result) = 2

\* C2: every /clear leaves the session with a token different from the one
\* it had before the request.
C2_ClearChangesToken ==
    prev.kind = "clear" => prev.session_id # prev.old_id

\* C3: when the store is unavailable, /chat with message m sends exactly
\* [system prompt, user m] to the completion service, returns "success" when
\* that call succeeds, persists nothing, and /history returns no message.
C3_State ==
    /\ \A r \in Recorded :
          (r.kind = "chat" /\ r.user_message \in Messages /\ StoreDown(r)) =>
             /\ Built(r) => r.messages = <<SystemMsg, Msg("user", r.user_message)>>
             /\ (r.pc = "done" /\ groq_client) => r.calls = 1
             /\ (r.pc = "done" /\ r.ai_response # "") =>
                    r.status = "success" /\ r.response = r.ai_response
    /\ (prev.kind = "history" /\ StoreDown(prev)) => prev.result = <<>>
    /\ ~connected => conversations = <<>>

\* the request of thread s after a step it took
After(s) == IF reqs'[s].kind = "idle" THEN prev' ELSE reqs'[s]

C3_Step ==
    \A s \in Slots :
       (reqs[s].kind = "chat" /\ reqs'[s].pc # reqs[s].pc /\ After(s).ops = {}) =>
          conversations' = conversations

C3_DegradedChat == [](C3_State) /\ [][C3_Step]_vars

C3_Witness ==
    /\ prev.kind = "chat" /\ prev.status = "success" /\ connected
    /\ prev.errs = {"append", "fetch", "save"}
    /\ prev.messages = <<SystemMsg, Msg("user", prev.user_message)>>

\* C4: for a fetched history of n >= 1 messages the list sent is the system
\* message followed by the last min(n, 10) stored messages in stored order.
C4_Window(r) ==
    LET h == r.chat_history[1].messages
        n == Len(h)
        k == IF n < WindowSize THEN n ELSE WindowSize
    IN /\ Len(r.messages) = 1 + k
       /\ r.messages[1] = SystemMsg
       /\ \A i \in 1..k : r.messages[1 + i] = Msg(h[n - k + i].role, h[n - k + i].content)

C4_LastTenInOrder ==
    \A r \in Recorded :
       (Built(r) /\ r.chat_history # <<>> /\ Len(r.chat_history[1].messages) >= 1) =>
          C4_Window(r)

C4_Witness ==
    \E r \in Recorded :
       /\ Built(r) /\ r.chat_history # <<>>
       /\ Len(r.chat_history[1].messages) > WindowSize + 1
       /\ Len(r.messages) = WindowSize + 1
       /\ r.chat_history[1].messages[1].role # r.chat_history[1].messages[3].role

\* C5: whenever the fetched history is empty (no store, no record, or a
\* record with no message) the list sent is [system prompt, user m].
C5_EmptyHistoryBuild ==
    \A r \in Recorded :
       (Built(r) /\ (r.chat_history = <<>> \/ r.chat_history[1].messages = <<>>)) =>
          r.messages = <<SystemMsg, Msg("user", r.user_message)>>

\* C6: after the user-message append of /chat with message m returns, a
\* fetch of the token's conversation with no other request in between
\* returns a sequence whose last element is the user message m.
C6_Case(r) == Built(r) /\ r.alone /\ connected /\ {"append", "fetch"} \subseteq r.ops

C6_FetchAfterAppend ==
    \A r \in Recorded :
       C6_Case(r) =>
          /\ r.chat_history # <<>>
          /\ LET h == r.chat_history[1].messages IN
                /\ h # <<>>
                /\ h[Len(h)].role = "user"
                /\ h[Len(h)].content = r.user_message

C6_Witness ==
    \E r \in Recorded :
       /\ C6_Case(r) /\ r.old_id # NoToken
       /\ Len(r.chat_history[1].messages) >= 2

\* C7: after a /clear that runs alone on a session with a token and an
\* available store, the old token has no conversation, the new token has an
\* empty one, and /history returns no message.
C7_Clear(c) ==
    c.kind = "clear" /\ c.pc = "done" /\ c.alone /\ c.old_id # NoToken /\ StoreOk(c)

C7_ClearThenHistory ==
    /\ (C7_Clear(prev) /\ InFlight = {}) =>
          /\ prev.status = "success"
          /\ cookie = prev.session_id
          /\ FindOne(conversations, prev.old_id) = <<>>
          /\ FindOne(conversations, prev.session_id) # <<>>
          /\ FindOne(conversations, prev.session_id)[1].messages = <<>>
    /\ (C7_Clear(prev2) /\ prev.kind = "history" /\ Consecutive) =>
          /\ prev.session_id = prev2.session_id
          /\ prev.result = <<>>

C7_Witness ==
    /\ C7_Clear(prev2) /\ prev.kind = "history" /\ Consecutive /\ StoreOk(prev)
    /\ prev.chat_history # <<>>

\* C8: whenever /chat returns "success" with reply r while the store is
\* available, the assistant message r is in the conversation of the
\* request's token when the response is returned.
C8_SuccessPersistsReply ==
    (prev.kind = "chat" /\ prev.status = "success" /\ StoreOk(prev) /\ InFlight = {}) =>
       \E i \in Matches(conversations, prev.session_id) :
          \E j \in 1..Len(conversations[i].messages) :
             /\ conversations[i].messages[j].role = "assistant"
             /\ conversations[i].messages[j].content = prev.response

\* C9: a finished /chat is "success" exactly when its single completion call
\* returned a reply, and the response is then that reply; otherwise it is
\* "error" with one of the fixed fallback strings.
C9_Outcome ==
    \A r \in Recorded :
       (r.kind = "chat" /\ r.pc = "done") =>
          /\ r.status \in {"success", "error"}
          /\ r.status = "success" <=> (r.calls = 1 /\ r.ai_response \in Replies)
          /\ r.status = "success" => r.response = r.ai_response
          /\ r.status = "error" => r.response \in Fallbacks

C9_Witness ==
    /\ prev.kind = "chat" /\ prev.status = "error" /\ prev.calls = 1
    /\ prev.errs = {"append", "fetch"}
    /\ prev2.kind = "chat" /\ prev2.status = "success" /\ prev2.errs = {"save"}

\* C10 as stated: with no completion client every /chat returns the advisory
\* message with "error" and calls nothing; with one, a /chat calls at most once.
C10_AdvisoryAlways ==
    \A r \in Recorded :
       r.kind = "chat" =>
          /\ r.calls <= 1
          /\ (~groq_client /\ r.pc = "done") =>
                r.calls = 0 /\ r.status = "error" /\ r.response = Advisory

\* C10 amended: with no completion client a /chat whose body is read returns
\* the advisory message with "error", one whose body cannot be read returns
\* the generic message with "error", and neither calls the completion
\* service; with a client, a /chat calls at most once.
C10_AdvisoryWhenBodyRead ==
    \A r \in Recorded :
       r.kind = "chat" =>
          /\ r.calls <= 1
          /\ (r.status = "error" /\ r.calls = 1) => r.response = ServiceError
          /\ (~groq_client /\ r.pc = "done") =>
                /\ r.calls = 0 /\ r.status = "error"
                /\ r.response = IF r.user_message \in Messages THEN Advisory
                                ELSE GenericError

C10_Witness ==
    /\ ~groq_client
    /\ prev.kind = "chat" /\ prev.response = Advisory /\ "append" \in prev.ops
    /\ prev2.kind = "chat" /\ prev2.response = GenericError


\* C11: a request other than /clear that arrives with a session token keeps
\* it, whether or not the store has a conversation for it; only /clear
\* replaces the token of a session that has one.
C11_Keeps(r) ==
    (r.kind \in {"home", "chat", "history", "status", "health"} /\ r.old_id # NoToken) =>
       r.session_id = r.old_id /\ ~r.modified

C11_State == \A r \in Recorded : C11_Keeps(r)

C11_Step ==
    (cookie # NoToken /\ cookie' # cookie) =>
       prev'.kind = "clear" /\ prev' # prev /\ prev'.old_id = cookie

C11_TokenKept == [](C11_State) /\ [][C11_Step]_vars

C11_Witness ==
    /\ prev.kind = "chat" /\ prev.old_id # NoToken /\ prev.status = "success"
    /\ prev.chat_history = <<>> /\ "fetch" \in prev.ops
    /\ prev2.kind = "home" /\ prev2.old_id = prev.old_id
    /\ cookie = prev.old_id

\* C12: after a GET / that completes while the store is available there is
\* exactly one conversation for the session's token, created empty if there
\* was none and left as it was otherwise.
C12_HomeEnsures ==
    (prev.kind = "home" /\ StoreOk(prev) /\ InFlight = {}) =>
       Cardinality(Matches(conversations, prev.session_id)) = 1

\* C13: under any interleaving of requests other than /clear the stored
\* messages only grow at the end: every step that is not a step of /clear
\* keeps each document in place with its old messages as a prefix of the new.
IsPrefix(a, b) == Len(a) <= Len(b) /\ SubSeq(b, 1, Len(a)) = a

\* thread s takes the step
Steps(s) == reqs[s].kind # "idle" /\ reqs'[s].pc # reqs[s].pc

\* the messages find_one returns for token t
StoredFor(docs, t) == IF Matches(docs, t) = {} THEN <<>> ELSE FindOne(docs, t)[1].messages

C13_Step ==
    (~ \E s \in Slots : reqs[s].kind = "clear" /\ Steps(s)) =>
       /\ Len(conversations) <= Len(conversations')
       /\ \A i \in 1..Len(conversations) :
             /\ conversations'[i].session_id = conversations[i].session_id
             /\ IsPrefix(conversations[i].messages, conversations'[i].messages)
       /\ \A t \in 1..next_token :
             IsPrefix(StoredFor(conversations, t), StoredFor(conversations', t))

C13_AppendOnly == [][C13_Step]_vars

C13_Witness ==
    /\ \E s \in Slots : reqs[s].kind = "chat" /\ reqs[s].pc = "save" /\ ~reqs[s].alone
                        /\ Len(StoredFor(conversations, reqs[s].session_id)) >= 3
    /\ prev.kind = "chat" /\ ~prev.alone

\* C14: in every reachable state the store holds at most one conversation
\* document per session token.
C14_OnePerToken ==
    \A t \in 1..next_token : Cardinality(Matches(conversations, t)) <= 1

\* C15: when two /chat requests of one session run concurrently with the
\* store available and both completion calls succeeding, the conversation
\* afterwards holds both user messages and both replies, each request's
\* user message before its own reply.
C15_Pair ==
    /\ prev.kind = "chat" /\ prev2.kind = "chat"
    /\ ~prev.alone /\ ~prev2.alone /\ InFlight = {}
    /\ prev.session_id = prev2.session_id
    /\ StoreOk(prev) /\ StoreOk(prev2)
    /\ prev.status = "success" /\ prev2.status = "success"

\* the conversation h holds the two messages of request r in order
C15_Holds(h, r) ==
    \E i, j \in 1..Len(h) :
       /\ i < j
       /\ h[i] = Stored("user", r.user_message, r.user_ts)
       /\ h[j] = Stored("assistant", r.response, r.reply_ts)

C15_NoLostAppend ==
    C15_Pair =>
       /\ C15_Holds(StoredFor(conversations, prev.session_id), prev)
       /\ C15_Holds(StoredFor(conversations, prev.session_id), prev2)

\* C16: a /clear that returns "error" has changed nothing: the session keeps
\* its token and the old conversation has not been deleted.
C16_ClearAtomic ==
    (prev.kind = "clear" /\ prev.status = "error") =>
       /\ prev.session_id = prev.old_id
       /\ ~prev.modified
       /\ "delete" \notin prev.ops

\* C17: when a /clear overlaps a /chat that carries the old token, no
\* conversation exists under the old token once both have finished.
C17_Overlap(c, d) ==
    /\ c.kind = "clear" /\ d.kind = "chat"
    /\ ~c.alone /\ ~d.alone /\ InFlight = {}
    /\ c.old_id # NoToken /\ d.session_id = c.old_id
    /\ StoreOk(c) /\ StoreOk(d)

C17_ClearedStaysCleared ==
    /\ C17_Overlap(prev, prev2) => Matches(conversations, prev.old_id) = {}
    /\ C17_Overlap(prev2, prev) => Matches(conversations, prev2.old_id) = {}

\* C18: the last element of the list a /chat sends to the completion
\* service is the user message of that request.
C18_LastIsOwnMessage ==
    \A r \in Recorded :
       Built(r) => /\ r.messages # <<>>
                   /\ r.messages[Len(r.messages)] = Msg("user", r.user_message)

\* C19: in every reachable state a conversation's updated_at is not earlier
\* than the timestamp of its last stored message.
C19_UpdatedAtCurrent ==
    \A i \in 1..Len(conversations) :
       LET d == conversations[i] IN
          d.messages # <<>> => d.updated_at >= d.messages[Len(d.messages)].timestamp
====
